---------------------------- MODULE Spec2Model ----------------------------
(***************************************************************************)
(* A model of fddf, a parallel duplicate file finder (src/src/main.rs).    *)
(*                                                                         *)
(* Files are modelled at block granularity.  A file of `size` bytes is a   *)
(* sequence of ceil(size / BLOCKSIZE) blocks; `content` is the set of      *)
(* block indexes (from 0) whose bytes are of class 1, every other block    *)
(* being of class 0.  Two blocks of the same length hold the same bytes    *)
(* iff their classes agree, so two files of one size are byte-identical    *)
(* iff their contents agree, and a difference in the last byte is a        *)
(* difference in the class of the last block.                              *)
(*                                                                         *)
(* Two specifications share the module.  SpecCmp is one invocation of      *)
(* compare_files, step by step, with reads and opens that may fail.  Spec  *)
(* is a whole run of main: the walk, the pool with its jobs, the two       *)
(* channels, the aggregator and the printer.  In Spec                      *)
(*   - every entry the walk yields is a new path (the roots do not         *)
(*     overlap); a path is the index of its entry in `files`;              *)
(*   - the hasher is free of collisions: a digest is what was fed to it;   *)
(*   - the pool hands its jobs to free workers in the order of submission; *)
(*   - a hash job may fail, a comparison job runs compare_files to its     *)
(*     end in one step and without an I/O error (SpecCmp has the errors).  *)
(***************************************************************************)
EXTENDS Integers, Sequences, FiniteSets, TLC

VARIABLES
    files,      \* the file system: path -> [size, content, ino, flaky, name]
    cmp,        \* one compare_files invocation (SpecCmp)
    opts,       \* the command line and the platform (Spec)
    main,       \* the main thread: its place, `inodes`, `sizes`
    jobs,       \* the jobs given to the pool, in the order of scope.execute
    chan,       \* the hash channel of scope A: the messages not yet received
    hashes,     \* the `hashes` map: <<size, digest>> -> paths
    chan2,      \* the dupe channel of scope B: the groups not yet received
    sink        \* the printer's output and tallies, and the diagnostics

pipe == <<opts, main, jobs, chan, hashes, chan2, sink>>

vars == <<files, cmp, pipe>>

(***************************************************************************)
(* Program constants.                                                      *)
(***************************************************************************)
BLOCKSIZE == 4096

GAPSIZE == 102400

\* compare_files: `if paths.len() < 100`
SlowThreshold == 100

(***************************************************************************)
(* Bounds of the model.                                                    *)
(***************************************************************************)
\* Largest exhaustively explored candidate group.
MaxPaths == 4

\* Most I/O errors within one compare_files invocation, and most failing
\* hash jobs of a run.
MaxErrors == 2

\* Most regular files the walk meets.
MaxFiles == 4

\* num_cpus::get()
NumCpus == 1

\* The groups the printer alone is given.
MaxGroups == 2

\* The file sizes of an exhaustively explored candidate group: no block,
\* one short block, one full block, a full block and one byte.
CmpSizes == {0, 1, BLOCKSIZE, BLOCKSIZE + 1}

(***************************************************************************)
(* Helpers on sequences and numbers.                                       *)
(***************************************************************************)
Min(a, b) == IF a < b THEN a ELSE b

Range(s) == {s[j] : j \in 1..Len(s)}

\* Vec::remove(i): the elements after i shift down (i is 1-based here).
Remove(s, i) == SubSeq(s, 1, i - 1) \o SubSeq(s, i + 1, Len(s))

\* Vec::swap_remove(i): the last element takes the place of element i.
SwapRemove(s, i) ==
    IF i = Len(s) THEN SubSeq(s, 1, Len(s) - 1)
    ELSE SubSeq(s, 1, i - 1) \o <<s[Len(s)]>> \o SubSeq(s, i + 1, Len(s) - 1)

\* Number of blocks of a file of `size` bytes.
NBlocks(size) == (size + BLOCKSIZE - 1) \div BLOCKSIZE

(***************************************************************************)
(* File::read on a regular file, at byte offset pos, into a buffer of      *)
(* BLOCKSIZE bytes: the number of bytes read and the class of the bytes.   *)
(***************************************************************************)
ReadLen(f, path, pos) ==
    IF pos >= f[path].size THEN 0 ELSE Min(BLOCKSIZE, f[path].size - pos)

BlockClass(f, path, pos) ==
    IF (pos \div BLOCKSIZE) \in f[path].content THEN 1 ELSE 0

(***************************************************************************)
(* Candidates (FastCandidate, SlowCandidate).  A candidate is named by its *)
(* index in `paths`.  buf is the class of the bytes the buffer holds, n    *)
(* the length of the last read, pos the offset of the next read (the file  *)
(* cursor of a FastCandidate, the pos field of a SlowCandidate).           *)
(***************************************************************************)
NewCandidate == [buf |-> 0, n |-> 0, pos |-> 0]

\* buf[..n]
Slice(c) == IF c.n = 0 THEN <<>> ELSE <<c.n, c.buf>>

BufEqual(a, b) == Slice(a) = Slice(b)


(***************************************************************************)
(* The state of one compare_files invocation:                              *)
(*   pc      "start", "open" (Fast: opening the files), "inner" (inside    *)
(*           compare_files_inner), "done"                                  *)
(*   mode    "fast" or "slow" once chosen                                  *)
(*   k       Fast: the index of the next path to open                      *)
(*   opened  Fast: the candidates collected so far by filter_map           *)
(*   cand    candidate index -> candidate                                  *)
(*   handles the candidates that hold an open file handle                  *)
(*   stack   the activations of compare_files_inner, innermost last; each  *)
(*           is [todo, diff, pc, i] with pc one of "scan", "call",         *)
(*           "check", "read", "slowread", "send"                           *)
(*   sent    the groups sent on tx, in order                               *)
(*   errs    the candidates reported by err()                              *)
(***************************************************************************)
CmpInit(fsize, paths) ==
    [pc |-> "start", mode |-> "none", fsize |-> fsize, paths |-> paths,
     k |-> 0, opened |-> <<>>,
     cand |-> [j \in 1..Len(paths) |-> NewCandidate],
     handles |-> {}, stack |-> <<>>, sent |-> <<>>, errs |-> {}]

\* An activation of compare_files_inner; iter counts the iterations of its
\* `loop` (line 111) begun so far.
NewFrame(todo) ==
    [todo |-> todo, diff |-> <<>>, pc |-> "scan", i |-> 0, iter |-> 0]

Top(c) == c.stack[Len(c.stack)]

SetTop(c, fr) == [c EXCEPT !.stack[Len(c.stack)] = fr]

\* The call compare_files_inner(fsize, todo, &tx).
EnterInner(c, todo) ==
    [c EXCEPT !.pc = "inner", !.stack = Append(@, NewFrame(todo))]

\* An activation ends: its todo and todo_diff are dropped, which closes the
\* handles their candidates hold.
Pop(c) ==
    LET fr == Top(c)
        st == SubSeq(c.stack, 1, Len(c.stack) - 1)
    IN  [c EXCEPT !.stack = st,
                  !.handles = @ \ (Range(fr.todo) \cup Range(fr.diff)),
                  !.pc = IF st = <<>> THEN "done" ELSE "inner"]

\* compare_files, lines 151 and 160-163: the choice of the strategy.
\* (Mutant of UseFast: `paths.len() <= 100`.)
UseFastOrEqual(n) == n <= SlowThreshold

UseFast(n) == n < SlowThreshold

DoStart(c) ==
    IF UseFast(Len(c.paths))
    THEN IF Len(c.paths) = 0
         THEN EnterInner([c EXCEPT !.mode = "fast"], <<>>)
         ELSE [c EXCEPT !.mode = "fast", !.pc = "open", !.k = 1]
    ELSE EnterInner([c EXCEPT !.mode = "slow"],
                    [j \in 1..Len(c.paths) |-> j])

\* compare_files, lines 152-158: File::open of the next path; after the last
\* one the collected candidates go to compare_files_inner.
DoOpen(c, ok) ==
    LET c1 == IF ok
              THEN [c EXCEPT !.opened = Append(@, c.k),
                             !.handles = @ \cup {c.k}]
              ELSE [c EXCEPT !.errs = @ \cup {c.k}]
    IN  IF c.k = Len(c.paths)
        THEN EnterInner([c1 EXCEPT !.k = 0], c1.opened)
        ELSE [c1 EXCEPT !.k = c.k + 1]

\* compare_files_inner, lines 112-117: for i in (1..todo.len()).rev(), move
\* the candidates whose buffer differs from todo[0]'s to todo_diff.
\* One pass of the loop body, at index i (from 1): st is <<todo, todo_diff>>.
\* (Mutant of ScanStep: the candidate is pushed to todo_diff and stays in
\* todo.)
ScanStepKeep(cand, st, i) ==
    IF ~BufEqual(cand[st[1][i]], cand[st[1][1]])
    THEN <<st[1], Append(st[2], st[1][i])>>
    ELSE st

ScanStep(cand, st, i) ==
    IF ~BufEqual(cand[st[1][i]], cand[st[1][1]])
    THEN <<SwapRemove(st[1], i), Append(st[2], st[1][i])>>
    ELSE st

\* The passes at the indexes hi, hi - 1, ..., lo in this order (the range is
\* halved, and the upper half evaluated first, so that the evaluation nests
\* no deeper than the logarithm of the length; the state after the upper
\* half is bound as a value, so that it is computed once).
RECURSIVE ScanRange(_, _, _, _)
ScanRange(cand, st, lo, hi) ==
    IF lo > hi THEN st
    ELSE IF lo = hi THEN ScanStep(cand, st, lo)
    ELSE CHOOSE r \in {ScanRange(cand, upper, lo, mid) :
                           mid \in {(lo + hi) \div 2},
                           upper \in {ScanRange(cand, st, ((lo + hi) \div 2) + 1, hi)}} : TRUE

\* (Mutant of Scan: the loop stops one index short, `1..todo.len() - 1`.)
ScanSkipLast(cand, todo) == ScanRange(cand, <<todo, <<>>>>, 2, Len(todo) - 1)

Scan(cand, todo) == ScanRange(cand, <<todo, <<>>>>, 2, Len(todo))

\* (Mutant of DoPartition: `todo_diff.len() > 2` guards the recursion.)
DoPartitionGt(c) ==
    LET fr == Top(c)
        r  == Scan(c.cand, fr.todo)
    IN  SetTop(c, [fr EXCEPT !.todo = r[1], !.diff = r[2], !.iter = @ + 1,
                             !.pc = IF Len(r[2]) > 2 THEN "call" ELSE "check"])

DoPartition(c) ==
    LET fr == Top(c)
        r  == Scan(c.cand, fr.todo)
    IN  SetTop(c, [fr EXCEPT !.todo = r[1], !.diff = r[2], !.iter = @ + 1,
                             !.pc = IF Len(r[2]) >= 2 THEN "call" ELSE "check"])

\* lines 119-123: the recursive call on todo_diff, which moves into it.
DoRecurse(c) ==
    LET fr == Top(c)
        c1 == SetTop(c, [fr EXCEPT !.diff = <<>>, !.pc = "check"])
    IN  [c1 EXCEPT !.stack = Append(@, NewFrame(fr.diff))]

\* lines 125-127: not enough candidates left.
DoReturn(c) == Pop(c)

\* The index the read loop (line 129) is at.
ReadIndex(fr) == IF fr.pc = "check" THEN Len(fr.todo) ELSE fr.i

\* The read loop moves on to index i - 1; after index 0 the outer loop
\* starts over and this iteration's todo_diff is dropped.
Advance(c, fr, i) ==
    IF i = 1
    THEN [SetTop(c, [fr EXCEPT !.pc = "scan", !.diff = <<>>, !.i = 0])
              EXCEPT !.handles = @ \ Range(fr.diff)]
    ELSE SetTop(c, [fr EXCEPT !.pc = "read", !.i = i - 1])

\* line 132: Ok(0) => break 'outer
ReadEof(c, fr) == SetTop(c, [fr EXCEPT !.pc = "send", !.i = 0])

\* line 134: Err(_) => { todo.remove(i); }
\* (Mutant of ReadErr: the error is reported and the candidate stays.)
ReadErrKeep(c, fr, i) == Advance([c EXCEPT !.errs = @ \cup {fr.todo[i]}], fr, i)

ReadErr(c, fr, i) ==
    LET id == fr.todo[i]
    IN  Advance([c EXCEPT !.errs = @ \cup {id}, !.handles = @ \ {id}],
                [fr EXCEPT !.todo = Remove(fr.todo, i)], i)

\* read_block returning Ok(n): n is stored, the buffer holds the block read
\* and the offset moves on by n.
\* (Mutant of ReadOk: the offset is not moved on, as if SlowCandidate left
\* out `self.pos += n`.)
ReadOkSamePos(c, f, fr, i) ==
    LET id == fr.todo[i]
        cd == c.cand[id]
        n  == ReadLen(f, c.paths[id], cd.pos)
        c1 == [c EXCEPT !.cand[id] =
                   [buf |-> IF n > 0 THEN BlockClass(f, c.paths[id], cd.pos)
                                     ELSE cd.buf,
                    n |-> n, pos |-> cd.pos]]
    IN  IF n = 0 THEN ReadEof(c1, fr) ELSE Advance(c1, fr, i)

ReadOk(c, f, fr, i) ==
    LET id == fr.todo[i]
        cd == c.cand[id]
        n  == ReadLen(f, c.paths[id], cd.pos)
        c1 == [c EXCEPT !.cand[id] =
                   [buf |-> IF n > 0 THEN BlockClass(f, c.paths[id], cd.pos)
                                     ELSE cd.buf,
                    n |-> n, pos |-> cd.pos + n]]
    IN  IF n = 0 THEN ReadEof(c1, fr) ELSE Advance(c1, fr, i)

\* FastCandidate::read_block inside the read loop (lines 129-137, 72-77).
DoRead(c, f, ok) ==
    LET fr == Top(c)
        i  == ReadIndex(fr)
    IN  IF ok THEN ReadOk(c, f, fr, i) ELSE ReadErr(c, fr, i)

\* SlowCandidate::read_block, line 90: File::open.
DoSlowOpen(c, ok) ==
    LET fr == Top(c)
        i  == ReadIndex(fr)
    IN  IF ok
        THEN [SetTop(c, [fr EXCEPT !.pc = "slowread", !.i = i])
                  EXCEPT !.handles = @ \cup {fr.todo[i]}]
        ELSE ReadErr(c, fr, i)

\* SlowCandidate::read_block, lines 91-97: seek, read, and the handle is
\* dropped as the closure returns.
DoSlowRead(c, f, ok) ==
    LET fr == Top(c)
        c1 == [c EXCEPT !.handles = @ \ {fr.todo[fr.i]}]
    IN  IF ok THEN ReadOk(c1, f, fr, fr.i) ELSE ReadErr(c1, fr, fr.i)

\* line 140: tx.send((fsize, paths of todo)).
DoSend(c) ==
    LET fr == Top(c)
        g  == [size |-> c.fsize,
               paths |-> [j \in 1..Len(fr.todo) |-> c.paths[fr.todo[j]]]]
    IN  Pop([c EXCEPT !.sent = Append(@, g)])


(***************************************************************************)
(* SpecCmp: one compare_files invocation on a candidate group of same-size *)
(* files, every read or open of a flaky file failing or not.               *)
(***************************************************************************)
\* What the program looks at in a file name: whether it starts with a dot
\* and whether it is valid UTF-8 (OsStr::to_str gives None if it is not).
Name(dot, utf8) == [dot |-> dot, utf8 |-> utf8]

PlainName == Name(FALSE, TRUE)

File(size, content, ino, flaky, name) ==
    [size |-> size, content |-> content, ino |-> ino, flaky |-> flaky,
     name |-> name]

BlockIndexes(size) == 0..(NBlocks(size) - 1)

\* Small groups: every content of every file, every file flaky.
InitSmall ==
    \E n \in 0..MaxPaths, size \in CmpSizes :
        \E ct \in [1..n -> SUBSET BlockIndexes(size)] :
            /\ files = [p \in 1..n |-> File(size, ct[p], p, TRUE, PlainName)]
            /\ cmp = CmpInit(size, [j \in 1..n |-> j])

\* Groups around the threshold of the Slow strategy: all files alike but
\* the deviants dev, which differ in block b; one file may be flaky.
InitLarge ==
    \E n \in {SlowThreshold - 1, SlowThreshold} :
        \E dev \in {{}, {1}, {2, n}}, b \in {0, 1}, fl \in {0, n - 1} :
            /\ files = [p \in 1..n |->
                          File(BLOCKSIZE + 1, IF p \in dev THEN {b} ELSE {},
                               p, p = fl, PlainName)]
            /\ cmp = CmpInit(BLOCKSIZE + 1, [j \in 1..n |-> j])

\* The printer's tallies (lines 329-331) and what was written: the groups
\* printed, the bytes on standard output, the paths of the diagnostics.
NoOutput ==
    [out |-> <<>>, bytes |-> <<>>, total_dupes |-> 0, total_files |-> 0,
     total_size |-> 0, errs |-> {}]

\* The rest of the program does not run.
PipeIdle ==
    /\ opts = [unix |-> TRUE]
    /\ main = [pc |-> "idle"]
    /\ jobs = <<>>
    /\ chan = <<>>
    /\ hashes = <<>>
    /\ chan2 = <<>>
    /\ sink = NoOutput

InitCmp == (InitSmall \/ InitLarge) /\ PipeIdle

\* The next read or open may fail only if its file is flaky and the bound on
\* the errors allows it.
MayBe(ok, path) ==
    ok \/ (files[path].flaky /\ Cardinality(cmp.errs) < MaxErrors)

Start ==
    /\ cmp.pc = "start"
    /\ cmp' = DoStart(cmp)
    /\ UNCHANGED <<files, pipe>>

Open ==
    /\ cmp.pc = "open"
    /\ \E ok \in BOOLEAN :
        /\ MayBe(ok, cmp.paths[cmp.k])
        /\ cmp' = DoOpen(cmp, ok)
    /\ UNCHANGED <<files, pipe>>

Partition ==
    /\ cmp.pc = "inner"
    /\ Top(cmp).pc = "scan"
    /\ cmp' = DoPartition(cmp)
    /\ UNCHANGED <<files, pipe>>

Recurse ==
    /\ cmp.pc = "inner"
    /\ Top(cmp).pc = "call"
    /\ cmp' = DoRecurse(cmp)
    /\ UNCHANGED <<files, pipe>>

Return ==
    /\ cmp.pc = "inner"
    /\ Top(cmp).pc = "check"
    /\ Len(Top(cmp).todo) < 2
    /\ cmp' = DoReturn(cmp)
    /\ UNCHANGED <<files, pipe>>

\* The read loop is at a candidate: line 125 has let it start, or it is on
\* its way.
AtRead(c) ==
    /\ c.pc = "inner"
    /\ \/ Top(c).pc = "check" /\ Len(Top(c).todo) >= 2
       \/ Top(c).pc = "read"

ReadPath(c) == c.paths[Top(c).todo[ReadIndex(Top(c))]]

Read ==
    /\ AtRead(cmp)
    /\ cmp.mode = "fast"
    /\ \E ok \in BOOLEAN :
        /\ MayBe(ok, ReadPath(cmp))
        /\ cmp' = DoRead(cmp, files, ok)
    /\ UNCHANGED <<files, pipe>>

SlowOpen ==
    /\ AtRead(cmp)
    /\ cmp.mode = "slow"
    /\ \E ok \in BOOLEAN :
        /\ MayBe(ok, ReadPath(cmp))
        /\ cmp' = DoSlowOpen(cmp, ok)
    /\ UNCHANGED <<files, pipe>>

SlowRead ==
    /\ cmp.pc = "inner"
    /\ Top(cmp).pc = "slowread"
    /\ \E ok \in BOOLEAN :
        /\ MayBe(ok, ReadPath(cmp))
        /\ cmp' = DoSlowRead(cmp, files, ok)
    /\ UNCHANGED <<files, pipe>>

Send ==
    /\ cmp.pc = "inner"
    /\ Top(cmp).pc = "send"
    /\ cmp' = DoSend(cmp)
    /\ UNCHANGED <<files, pipe>>

NextCmp ==
    \/ Start
    \/ Open
    \/ Partition
    \/ Recurse
    \/ Return
    \/ Read
    \/ SlowOpen
    \/ SlowRead
    \/ Send

SpecCmp == InitCmp /\ [][NextCmp]_vars

\* The thread that runs compare_files keeps running: it takes step after
\* step unless compare_files has returned.
SpecCmpFair == SpecCmp /\ WF_vars(NextCmp)


(***************************************************************************)
(* compare_files run to its end without an I/O error, as one comparison    *)
(* job of the pool does it.                                                *)
(***************************************************************************)
CmpStep(c, f) ==
    IF c.pc = "start" THEN DoStart(c)
    ELSE IF c.pc = "open" THEN DoOpen(c, TRUE)
    ELSE IF Top(c).pc = "scan" THEN DoPartition(c)
    ELSE IF Top(c).pc = "call" THEN DoRecurse(c)
    ELSE IF Top(c).pc = "check" /\ Len(Top(c).todo) < 2 THEN DoReturn(c)
    ELSE IF Top(c).pc = "send" THEN DoSend(c)
    ELSE IF Top(c).pc = "slowread" THEN DoSlowRead(c, f, TRUE)
    ELSE IF c.mode = "slow" THEN DoSlowOpen(c, TRUE)
    ELSE DoRead(c, f, TRUE)

\* Up to 2^k steps (the count is halved so that the evaluation nests no
\* deeper than k; the state half way is bound as a value, so that it is
\* computed once).
RECURSIVE CmpIter(_, _, _)
CmpIter(c, f, k) ==
    IF c.pc = "done" THEN c
    ELSE IF k = 0 THEN CmpStep(c, f)
    ELSE CHOOSE r \in {IF half.pc = "done" THEN half ELSE CmpIter(half, f, k - 1) :
                           half \in {CmpIter(c, f, k - 1)}} : TRUE

RECURSIVE CmpRunFrom(_, _, _)
CmpRunFrom(c, f, k) ==
    CHOOSE s \in {IF r.pc = "done" THEN r ELSE CmpRunFrom(r, f, k + 1) :
                      r \in {CmpIter(c, f, k)}} : TRUE

\* The groups compare_files(verbose, fsize, paths, tx) sends, in order.
CompareFiles(f, fsize, paths) == CmpRunFrom(CmpInit(fsize, paths), f, 4).sent

(***************************************************************************)
(* hash_file_inner: a block of BLOCKSIZE bytes is read and fed to the      *)
(* hasher, GAPSIZE bytes are skipped, until a read returns 0.  The digest  *)
(* is modelled by what was fed: the length and the class of each block     *)
(* read (the hasher is taken to be free of collisions).                    *)
(***************************************************************************)
\* (Mutant of SampleFrom: the seek is left out, every block is hashed.)
RECURSIVE SampleAllFrom(_, _, _)
SampleAllFrom(f, path, pos) ==
    LET n == ReadLen(f, path, pos)
    IN  IF n = 0 THEN <<>>
        ELSE <<<<n, BlockClass(f, path, pos)>>>>
                 \o SampleAllFrom(f, path, pos + n)

RECURSIVE SampleFrom(_, _, _)
SampleFrom(f, path, pos) ==
    LET n == ReadLen(f, path, pos)
    IN  IF n = 0 THEN <<>>
        ELSE <<<<n, BlockClass(f, path, pos)>>>>
                 \o SampleFrom(f, path, pos + n + GAPSIZE)

\* (Mutant of HashFileInner: the seek comes before the read.)
HashFileInnerSeekFirst(f, path) == SampleFrom(f, path, GAPSIZE)

HashFileInner(f, path) == SampleFrom(f, path, 0)

(***************************************************************************)
(* The main thread: options, the inode filter, the size bucket.            *)
(***************************************************************************)
None == [some |-> FALSE, v |-> 0]

Some(v) == [some |-> TRUE, v |-> v]

\* line 307: fsize >= minsize && fsize <= maxsize, maxsize being u64::MAX
\* when -M is not given.
SizeOk(o, fsize) ==
    fsize >= o.minsize /\ (o.maxsize.some => fsize <= o.maxsize.v)

\* is_hidden_file, lines 196-201: a name that is not UTF-8 is not hidden.
IsHiddenFile(e) == IF e.name.utf8 THEN e.name.dot ELSE FALSE

\* line 222: nohidden && is_hidden_file(entry)
HiddenExcluded(o, e) == o.nohidden /\ IsHiddenFile(e)

\* check_inode, lines 237-244: on unix the (dev, ino) pair is inserted and
\* the answer is whether it was new; elsewhere the answer is always true.
\* (Mutant of CheckInode: the pair is looked up and never inserted.)
CheckInodeNoInsert(o, set, ino) ==
    [set |-> set, fresh |-> IF o.unix THEN ino \notin set ELSE TRUE]

CheckInode(o, set, ino) ==
    [set |-> IF o.unix THEN set \cup {ino} ELSE set,
     fresh |-> IF o.unix THEN ino \notin set ELSE TRUE]

One(path) == [tag |-> "One", path |-> path]

Multiple == [tag |-> "Multiple", path |-> 0]

Job(kind, size, paths) ==
    [kind |-> kind, size |-> size, paths |-> paths, st |-> "queued"]

\* process, lines 273-289: the new `sizes` and the hash jobs submitted.
\* (Mutant of Process: the first file of a size is hashed at once.)
ProcessEager(sizes, fsize, path) ==
    [sizes |-> (fsize :> Multiple) @@ sizes,
     jobs |-> <<Job("hash", fsize, <<path>>)>>]

\* (Mutant of Process: the job of the new path is submitted before the
\* job of the stashed one.)
ProcessNewFirst(sizes, fsize, path) ==
    IF fsize \notin DOMAIN sizes
    THEN [sizes |-> (fsize :> One(path)) @@ sizes, jobs |-> <<>>]
    ELSE [sizes |-> [sizes EXCEPT ![fsize] = Multiple],
          jobs |-> <<Job("hash", fsize, <<path>>)>>
                   \o (IF sizes[fsize].tag = "One"
                       THEN <<Job("hash", fsize, <<sizes[fsize].path>>)>>
                       ELSE <<>>)]

Process(sizes, fsize, path) ==
    IF fsize \notin DOMAIN sizes
    THEN [sizes |-> (fsize :> One(path)) @@ sizes, jobs |-> <<>>]
    ELSE [sizes |-> [sizes EXCEPT ![fsize] = Multiple],
          jobs |-> (IF sizes[fsize].tag = "One"
                    THEN <<Job("hash", fsize, <<sizes[fsize].path>>)>>
                    ELSE <<>>)
                   \o <<Job("hash", fsize, <<path>>)>>]

\* lines 303-313: one regular file met by the walk, `path` being its name
\* and e its metadata and file name.  The result is the main thread's new
\* state and the jobs submitted.
Visit(o, m, path, e) ==
    IF ~SizeOk(o, e.size) THEN [main |-> m, jobs |-> <<>>]
    ELSE LET ci == CheckInode(o, m.inodes, e.ino)
             m1 == [m EXCEPT !.inodes = ci.set]
         IN  IF ~ci.fresh \/ HiddenExcluded(o, e)
             THEN [main |-> m1, jobs |-> <<>>]
             ELSE LET pr == Process(m.sizes, e.size, path)
                  IN  [main |-> [m1 EXCEPT !.sizes = pr.sizes,
                                           !.observed = Append(@, path)],
                       jobs |-> pr.jobs]

(***************************************************************************)
(* Spec: a whole run.  The walk meets up to MaxFiles regular files, each a *)
(* new path: a new inode of one of the Kinds or a hard link to an inode    *)
(* met before, hidden or not.  An entry that is no regular file, or whose  *)
(* metadata cannot be read, changes no state and is left out.              *)
(***************************************************************************)
LargeSize == BLOCKSIZE + GAPSIZE + 1

\* A one-byte file, and a file with a second sampled block in two contents
\* that differ inside the gap the sparse hash skips.
Kinds ==
    {[size |-> 1, content |-> {}],
     [size |-> LargeSize, content |-> {}], [size |-> LargeSize, content |-> {1}]}

\* The platform and the options -H, -m, -M; -s and -0 are not given.
Options(unix, nohidden, minsize, maxsize) ==
    [unix |-> unix, nohidden |-> nohidden, minsize |-> minsize,
     maxsize |-> maxsize, singleline |-> FALSE, nul |-> FALSE]

\* The command lines explored: no option (on unix and elsewhere), -H, -m 2
\* and -M 1.
OptSets ==
    {Options(TRUE, FALSE, 1, None), Options(FALSE, FALSE, 1, None),
     Options(TRUE, TRUE, 1, None), Options(TRUE, FALSE, 2, None),
     Options(TRUE, FALSE, 1, Some(1))}

\* Pool::new(num_cpus::get() + 1)
\* line 249: Pool::new(num_cpus::get() + 1).
\* (Mutant of PoolSize: Pool::new(num_cpus::get()), no worker to spare.)
PoolSizeNoSpare == NumCpus

PoolSize == NumCpus + 1

Init ==
    /\ files = <<>>
    /\ cmp = CmpInit(0, <<>>)
    /\ opts \in OptSets
    /\ main = [pc |-> "walk", inodes |-> {}, sizes |-> <<>>,
               observed |-> <<>>, iter |-> {}]
    /\ jobs = <<Job("agg", 0, <<>>)>>
    /\ chan = <<>>
    /\ hashes = <<>>
    /\ chan2 = <<>>
    /\ sink = NoOutput

\* The names of the entries the walk may meet: plain, or starting with a
\* dot and then UTF-8 or not.  Names with a dot are met only under -H, which
\* alone looks at them.
Names ==
    IF opts.nohidden
    THEN {PlainName, Name(TRUE, TRUE), Name(TRUE, FALSE)}
    ELSE {PlainName}

\* The kinds of files the walk may meet: under -H, where the names vary,
\* one-byte files only.
KindsMet == IF opts.nohidden THEN {k \in Kinds : k.size = 1} ELSE Kinds

\* The directory entries the walk may meet next.
Entries ==
    {File(k.size, k.content, Len(files) + 1, TRUE, h) :
         k \in KindsMet, h \in Names}
    \cup {File(files[q].size, files[q].content, files[q].ino, TRUE, h) :
              q \in 1..Len(files), h \in Names}

JobsIn(kind, sts) ==
    {j \in 1..Len(jobs) : jobs[j].kind = kind /\ jobs[j].st \in sts}

Busy == Cardinality({j \in 1..Len(jobs) : jobs[j].st = "running"})

AllJobsDone == \A j \in 1..Len(jobs) : jobs[j].st = "done"

\* lines 300-325: the walk yields a regular file.
Walk ==
    /\ main.pc = "walk"
    /\ Len(files) < MaxFiles
    /\ \E e \in Entries :
        LET v == Visit(opts, main, Len(files) + 1, e)
        IN  /\ files' = Append(files, e)
            /\ main' = v.main
            /\ jobs' = jobs \o v.jobs
    /\ UNCHANGED <<cmp, opts, chan, hashes, chan2, sink>>

\* line 327: the closure of scope A returns, which drops tx; pool.scoped
\* then waits for the jobs of the scope.
WalkEnd ==
    /\ main.pc = "walk"
    /\ main' = [main EXCEPT !.pc = "joinA"]
    /\ UNCHANGED <<files, cmp, opts, jobs, chan, hashes, chan2, sink>>

\* A free worker of the pool takes the oldest job waiting.
JobStart ==
    /\ Busy < PoolSize
    /\ \E j \in 1..Len(jobs) :
        /\ jobs[j].st = "queued"
        /\ \A i \in 1..(j - 1) : jobs[i].st # "queued"
        /\ jobs' = [jobs EXCEPT ![j].st = "running"]
    /\ UNCHANGED <<files, cmp, opts, main, chan, hashes, chan2, sink>>

\* hash_file, lines 41-49: the message sent and the error reported.
\* (Mutant of HashFile: a message is sent on an error too.)
HashFileAlways(f, job, ok) ==
    [msgs |-> <<[size |-> job.size, path |-> job.paths[1],
                 hash |-> IF ok THEN HashFileInner(f, job.paths[1]) ELSE <<>>]>>,
     errs |-> IF ok THEN {} ELSE {job.paths[1]}]

HashFile(f, job, ok) ==
    IF ok
    THEN [msgs |-> <<[size |-> job.size, path |-> job.paths[1],
                      hash |-> HashFileInner(f, job.paths[1])]>>,
          errs |-> {}]
    ELSE [msgs |-> <<>>, errs |-> {job.paths[1]}]

HashFinish ==
    \E j \in JobsIn("hash", {"running"}), ok \in BOOLEAN :
        /\ ok \/ Cardinality(sink.errs) < MaxErrors
        /\ LET r == HashFile(files, jobs[j], ok)
           IN  /\ chan' = chan \o r.msgs
               /\ sink' = [sink EXCEPT !.errs = @ \cup r.errs]
        /\ jobs' = [jobs EXCEPT ![j].st = "done"]
        /\ UNCHANGED <<files, cmp, opts, main, hashes, chan2>>

\* line 259: hashref.entry((size, hash)).or_insert_with(Vec::new).push(path)
\* (Mutant of Aggregate: the entry is overwritten, the last message of a
\* key wins.)
AggregateLast(h, msg) ==
    LET key == <<msg.size, msg.hash>>
    IN  IF key \in DOMAIN h
        THEN [h EXCEPT ![key] = <<msg.path>>]
        ELSE (key :> <<msg.path>>) @@ h

Aggregate(h, msg) ==
    LET key == <<msg.size, msg.hash>>
    IN  IF key \in DOMAIN h
        THEN [h EXCEPT ![key] = Append(@, msg.path)]
        ELSE (key :> <<msg.path>>) @@ h

\* lines 257-261: the aggregator receives a message.
AggRecv ==
    /\ JobsIn("agg", {"running"}) # {}
    /\ chan # <<>>
    /\ hashes' = Aggregate(hashes, Head(chan))
    /\ chan' = Tail(chan)
    /\ UNCHANGED <<files, cmp, opts, main, jobs, chan2, sink>>

\* Every sender of the channel is dropped: tx by the closure of the scope,
\* its clones by the hash jobs as they end.
SendersGone(pc, kind) == main.pc # pc /\ JobsIn(kind, {"queued", "running"}) = {}

\* rx.iter() ends: the channel is empty and every sender is dropped.
AggEnd ==
    /\ JobsIn("agg", {"running"}) # {}
    /\ chan = <<>>
    /\ SendersGone("walk", "hash")
    /\ jobs' = [j \in 1..Len(jobs) |->
                  IF jobs[j].kind = "agg" THEN [jobs[j] EXCEPT !.st = "done"]
                  ELSE jobs[j]]
    /\ UNCHANGED <<files, cmp, opts, main, chan, hashes, chan2, sink>>

\* pool.scoped returns once every job of scope A is done.
\* (Mutant of ScopeAJoined: scoped returns as soon as its closure does.)
ScopeANoJoin == TRUE

ScopeAJoined == AllJobsDone

\* lines 327 and 367-377: scope A exits, scope B starts with the printer
\* job, and the loop over `hashes` (moved into it) begins.
ScopeAExit ==
    /\ main.pc = "joinA"
    /\ ScopeAJoined
    /\ main' = [main EXCEPT !.pc = "iterB", !.iter = DOMAIN hashes]
    /\ jobs' = Append(jobs, Job("print", 0, <<>>))
    /\ UNCHANGED <<files, cmp, opts, chan, hashes, chan2, sink>>

\* lines 380-385: the loop takes the next entry of `hashes`, in the order
\* of the hash map, and submits a comparison job if it has two paths.
IterBucket ==
    /\ main.pc = "iterB"
    /\ \E key \in main.iter :
        /\ main' = [main EXCEPT !.iter = @ \ {key}]
        /\ jobs' = IF Len(hashes[key]) > 1
                   THEN Append(jobs, Job("cmp", key[1], hashes[key]))
                   ELSE jobs
    /\ UNCHANGED <<files, cmp, opts, chan, hashes, chan2, sink>>

\* line 386: the closure of scope B returns, which drops tx.
IterEnd ==
    /\ main.pc = "iterB"
    /\ main.iter = {}
    /\ main' = [main EXCEPT !.pc = "joinB"]
    /\ UNCHANGED <<files, cmp, opts, jobs, chan, hashes, chan2, sink>>

\* line 383: a comparison job runs compare_files.
CmpFinish ==
    \E j \in JobsIn("cmp", {"running"}) :
        /\ chan2' = chan2 \o CompareFiles(files, jobs[j].size, jobs[j].paths)
        /\ jobs' = [jobs EXCEPT ![j].st = "done"]
        /\ UNCHANGED <<files, cmp, opts, main, chan, hashes, sink>>

\* print_dupe, lines 335-363: the tallies and the record written.
\* What is written to standard output, as a sequence of pieces: a piece
\* is <<kind, value>>, the value being the path or the number displayed
\* and 0 for a literal.
Lit(str) == <<str, 0>>

\* lines 339-350: the paths on one line, separated by NUL or by a space.
RECURSIVE SingleLine(_, _)
SingleLine(nul, entries) ==
    IF Len(entries) = 0 THEN <<>>
    ELSE IF Len(entries) = 1 THEN <<<<"path", entries[1]>>>>
    ELSE <<<<"path", entries[1]>>, Lit(IF nul THEN "NUL" ELSE " ")>>
             \o SingleLine(nul, Tail(entries))

\* lines 352-355: the header line and one indented line for each path.
RECURSIVE PathLines(_)
PathLines(entries) ==
    IF Len(entries) = 0 THEN <<>>
    ELSE <<Lit("    "), <<"path", entries[1]>>, Lit("LF")>>
             \o PathLines(Tail(entries))

MultiLine(size, entries) ==
    <<Lit("Size "), <<"number", size>>, Lit(" bytes:"), Lit("LF")>>
        \o PathLines(entries)

\* lines 339-362: the record of one group.
FormatDupe(o, g) ==
    (IF o.singleline THEN SingleLine(o.nul, g.paths)
                     ELSE MultiLine(g.size, g.paths))
        \o (IF o.nul THEN <<Lit("NUL"), Lit("NUL")>> ELSE <<Lit("LF")>>)

\* (Mutant of PrintDupe: every path of the group is counted.)
PrintDupeAll(o, sk, g) ==
    [sk EXCEPT !.out = Append(@, g),
               !.bytes = @ \o FormatDupe(o, g),
               !.total_dupes = @ + 1,
               !.total_files = @ + Len(g.paths),
               !.total_size = @ + g.size * Len(g.paths)]

PrintDupe(o, sk, g) ==
    [sk EXCEPT !.out = Append(@, g),
               !.bytes = @ \o FormatDupe(o, g),
               !.total_dupes = @ + 1,
               !.total_files = @ + (Len(g.paths) - 1),
               !.total_size = @ + g.size * (Len(g.paths) - 1)]

\* lines 371-377: the printer receives a group.
PrintRecv ==
    /\ JobsIn("print", {"running"}) # {}
    /\ chan2 # <<>>
    /\ sink' = PrintDupe(opts, sink, Head(chan2))
    /\ chan2' = Tail(chan2)
    /\ UNCHANGED <<files, cmp, opts, main, jobs, chan, hashes>>

PrintEnd ==
    /\ JobsIn("print", {"running"}) # {}
    /\ chan2 = <<>>
    /\ SendersGone("iterB", "cmp")
    /\ jobs' = [j \in 1..Len(jobs) |->
                  IF jobs[j].kind = "print" THEN [jobs[j] EXCEPT !.st = "done"]
                  ELSE jobs[j]]
    /\ UNCHANGED <<files, cmp, opts, main, chan, hashes, chan2, sink>>

\* pool.scoped returns once every job of scope B is done.
ScopeBExit ==
    /\ main.pc = "joinB"
    /\ AllJobsDone
    /\ main' = [main EXCEPT !.pc = "done"]
    /\ UNCHANGED <<files, cmp, opts, jobs, chan, hashes, chan2, sink>>

Next ==
    \/ Walk
    \/ WalkEnd
    \/ JobStart
    \/ HashFinish
    \/ AggRecv
    \/ AggEnd
    \/ ScopeAExit
    \/ IterBucket
    \/ IterEnd
    \/ CmpFinish
    \/ PrintRecv
    \/ PrintEnd
    \/ ScopeBExit

Spec == Init /\ [][Next]_vars

\* The threads are scheduled fairly: the main thread and the workers of the
\* pool keep running, so a step is taken whenever one is possible.
SpecFair == Spec /\ WF_vars(Next)

(***************************************************************************)
(* SpecHash: two hash jobs, on two files of sizes around the block and the *)
(* stride of the sampling, run hash_file; nothing else runs.               *)
(***************************************************************************)
HashSizes ==
    {0, 1, BLOCKSIZE, BLOCKSIZE + 1, BLOCKSIZE + GAPSIZE - 1,
     BLOCKSIZE + GAPSIZE, BLOCKSIZE + GAPSIZE + 1,
     2 * (BLOCKSIZE + GAPSIZE) + 1}

\* The blocks whose bytes may be of class 1: the first two, and those
\* around the second and the third sampled block.
HashBlocks == {0, 1, 25, 26, 27, 52}

HashFiles ==
    {File(size, ct, 0, TRUE, PlainName) :
         size \in HashSizes, ct \in SUBSET HashBlocks}

InitHash ==
    /\ \E f1, f2 \in HashFiles :
           /\ f1.content \subseteq BlockIndexes(f1.size)
           /\ f2.content \subseteq BlockIndexes(f2.size)
           /\ files = <<[f1 EXCEPT !.ino = 1], [f2 EXCEPT !.ino = 2]>>
    /\ cmp = CmpInit(0, <<>>)
    /\ opts = [unix |-> TRUE]
    /\ main = [pc |-> "idle"]
    /\ jobs = [p \in 1..2 |->
                 [Job("hash", files[p].size, <<p>>) EXCEPT !.st = "running"]]
    /\ chan = <<>>
    /\ hashes = <<>>
    /\ chan2 = <<>>
    /\ sink = NoOutput

NextHash == HashFinish

SpecHash == InitHash /\ [][NextHash]_vars

(***************************************************************************)
(* SpecFmt: the printer job alone, under every choice of -s and -0, with   *)
(* up to MaxGroups groups waiting in the channel and every comparison job  *)
(* over.                                                                   *)
(***************************************************************************)
FmtGroups ==
    {[size |-> size, paths |-> ps] :
         size \in {1, LargeSize},
         ps \in {<<1>>, <<1, 2>>, <<2, 1>>, <<1, 2, 3>>}}

InitFmt ==
    /\ files = <<>>
    /\ cmp = CmpInit(0, <<>>)
    /\ \E s, z \in BOOLEAN :
           opts = [Options(TRUE, FALSE, 1, None) EXCEPT !.singleline = s,
                                                        !.nul = z]
    /\ main = [pc |-> "joinB"]
    /\ jobs = <<[Job("print", 0, <<>>) EXCEPT !.st = "running"]>>
    /\ chan = <<>>
    /\ hashes = <<>>
    /\ \E n \in 0..MaxGroups : chan2 \in [1..n -> FmtGroups]
    /\ sink = NoOutput

NextFmt == PrintRecv \/ PrintEnd

SpecFmt == InitFmt /\ [][NextFmt]_vars

(***************************************************************************)
(* Properties of the comparator.                                           *)
(***************************************************************************)
SentGroups == Range(cmp.sent)

CmpPaths == Range(cmp.paths)

ErrPaths == {cmp.paths[j] : j \in cmp.errs}

SameBytes(p, q) ==
    files[p].size = files[q].size /\ files[p].content = files[q].content

\* The last block of a file of `size` bytes.
LastBlock(size) == NBlocks(size) - 1

\* p and q differ in their last block and nowhere else.
DifferInLastBlockOnly(p, q) ==
    /\ files[p].size = files[q].size
    /\ files[p].size > 0
    /\ files[p].content # files[q].content
    /\ files[p].content \ {LastBlock(files[p].size)}
         = files[q].content \ {LastBlock(files[q].size)}

\* C1: a group sent to the result channel holds only paths whose contents
\* are pairwise byte-identical over [0, size), whatever reads failed.
C1_Soundness ==
    \A g \in SentGroups : \A p, q \in Range(g.paths) : SameBytes(p, q)

\* C1's case: a group was sent although a candidate differed from its
\* members in the last block only, and a read failed on the way.
C1_Witness ==
    /\ cmp.pc = "done"
    /\ cmp.errs # {}
    /\ \E g \in SentGroups : \E p \in Range(g.paths) :
           \E q \in CmpPaths \ Range(g.paths) :
               q \notin ErrPaths /\ DifferInLastBlockOnly(p, q)

\* C2: every group sent holds at least two paths.
C2_AtLeastTwo == \A g \in SentGroups : Len(g.paths) >= 2

\* The classes of the byte-equality relation on the candidate group.
ByteClasses == {{q \in CmpPaths : SameBytes(p, q)} : p \in CmpPaths}

\* C4: with no I/O error, the groups sent are exactly the classes of byte
\* equality that have two members or more, each sent once.
C4_Completeness ==
    (cmp.pc = "done" /\ cmp.errs = {}) =>
        /\ {Range(g.paths) : g \in SentGroups}
             = {cl \in ByteClasses : Cardinality(cl) >= 2}
        /\ Len(cmp.sent) = Cardinality({cl \in ByteClasses : Cardinality(cl) >= 2})

\* C4's case: A = B, C = D, A # C at offset 0, in some order, gave exactly
\* two groups.
C4_Witness ==
    /\ cmp.pc = "done"
    /\ cmp.errs = {}
    /\ Len(cmp.paths) = 4
    /\ Len(cmp.sent) = 2
    /\ \A g \in SentGroups : Len(g.paths) = 2
    /\ \E p, q \in CmpPaths :
           (0 \in files[p].content) /\ ~(0 \in files[q].content)

\* C8: a candidate whose read or open failed is in no group sent, and when
\* the invocation is over any two candidates without an error that are
\* byte-identical have been sent together.
C8_ReadError ==
    /\ \A g \in SentGroups : Range(g.paths) \cap ErrPaths = {}
    /\ cmp.pc = "done" =>
           \A p, q \in CmpPaths \ ErrPaths :
               (p # q /\ SameBytes(p, q)) =>
                   \E g \in SentGroups : {p, q} \subseteq Range(g.paths)

\* C8's case: a candidate failed after it had read a block, and a group of
\* the others was sent.
C8_Witness ==
    /\ cmp.pc = "done"
    /\ \E j \in cmp.errs : cmp.cand[j].pos > 0
    /\ \E g \in SentGroups : Len(g.paths) >= 2

\* C10: fewer than 100 paths use Fast candidates only, 100 or more Slow
\* ones only; the invocation holds at most min(|group|, 100) handles, and
\* in Slow mode at most one, and only inside a read_block.
C10_FdBound ==
    /\ cmp.mode = "fast" => Len(cmp.paths) < SlowThreshold
    /\ cmp.mode = "slow" => Len(cmp.paths) >= SlowThreshold
    /\ Cardinality(cmp.handles) <= Min(Len(cmp.paths), SlowThreshold)
    /\ cmp.mode = "slow" =>
           /\ Cardinality(cmp.handles) <= 1
           /\ cmp.handles # {} => (cmp.pc = "inner" /\ Top(cmp).pc = "slowread")

\* C10's case: a Slow candidate holds its handle inside a recursive call on
\* a todo_diff group.
C10_Witness ==
    /\ cmp.mode = "slow"
    /\ cmp.handles # {}
    /\ Len(cmp.stack) >= 2

\* C18, as claimed: an activation of compare_files_inner that reaches EOF
\* has begun at most ceil(size / BLOCK) iterations of its loop.
C18_WithinBlocks ==
    \A d \in DOMAIN cmp.stack :
        cmp.stack[d].pc = "send" => cmp.stack[d].iter <= NBlocks(cmp.fsize)

\* An activation that reaches EOF has begun at most ceil(size / BLOCK) + 1
\* iterations, and no activation begins more than ceil(size / BLOCK) + 2.
WithinBlocksPlus ==
    \A d \in DOMAIN cmp.stack :
        /\ cmp.stack[d].iter <= NBlocks(cmp.fsize) + 2
        /\ cmp.stack[d].pc = "send" =>
               cmp.stack[d].iter <= NBlocks(cmp.fsize) + 1

\* C18, amended: compare_files ends, whatever reads fail, and its
\* activations keep to these bounds.
C18_Terminates == []WithinBlocksPlus /\ <>(cmp.pc = "done")

\* C18's case: after a read error, a recursive call on todo_diff reaches
\* EOF in the iteration after the one of the last block.
C18_Witness ==
    /\ cmp.errs # {}
    /\ Len(cmp.stack) >= 2
    /\ Top(cmp).pc = "send"
    /\ cmp.fsize > BLOCKSIZE

(***************************************************************************)
(* Properties of the sparse hasher.                                        *)
(***************************************************************************)
\* What a hasher fed with every block of the file, in order, is fed.
WholeFile(p) ==
    [b \in 1..NBlocks(files[p].size) |->
         <<ReadLen(files, p, (b - 1) * BLOCKSIZE),
           BlockClass(files, p, (b - 1) * BLOCKSIZE)>>]

\* C11, as claimed: the message of a file shorter than BLOCK+GAP carries
\* the digest of the whole file.
C11_ShortFileWhole ==
    \A i \in DOMAIN chan :
        files[chan[i].path].size < BLOCKSIZE + GAPSIZE =>
            chan[i].hash = WholeFile(chan[i].path)

\* C11, amended: the message of a file of at most BLOCK bytes carries the
\* digest of the whole file, so two such files with different contents
\* get different digests.
C11_BlockFileWhole ==
    /\ \A i \in DOMAIN chan :
           files[chan[i].path].size <= BLOCKSIZE =>
               chan[i].hash = WholeFile(chan[i].path)
    /\ \A i, j \in DOMAIN chan :
           LET p == chan[i].path
               q == chan[j].path
           IN  (/\ files[p].size <= BLOCKSIZE
                /\ files[q].size <= BLOCKSIZE
                /\ ~SameBytes(p, q)) => chan[i].hash # chan[j].hash

\* C11's case: two files of BLOCK bytes with different contents were
\* hashed.
C11_Witness ==
    /\ Len(chan) = 2
    /\ files[1].size = BLOCKSIZE
    /\ files[2].size = BLOCKSIZE
    /\ files[1].content # files[2].content

(***************************************************************************)
(* Properties of the printer.                                              *)
(***************************************************************************)
\* The records of the groups s, one after the other, under the options o.
RECURSIVE FormatAll(_, _)
FormatAll(o, s) ==
    IF s = <<>> THEN <<>> ELSE FormatDupe(o, Head(s)) \o FormatAll(o, Tail(s))

\* C15: without -s, what is written is what is written without -0.
C15_NulIgnored ==
    ~opts.singleline =>
        sink.bytes = FormatAll([opts EXCEPT !.nul = FALSE], sink.out)

(***************************************************************************)
(* Properties of a whole run.                                              *)
(***************************************************************************)
\* The groups sent to the result channel, printed or still in flight.
Reported == sink.out \o chan2

ReportedPaths == UNION {Range(Reported[i].paths) : i \in DOMAIN Reported}

\* The paths passed to `process`.
Observed == Range(main.observed)

HashJobs == JobsIn("hash", {"queued", "running", "done"})

\* The paths whose hash job ended, and those of them whose hashing failed
\* or succeeded.
Hashed == {jobs[j].paths[1] : j \in JobsIn("hash", {"done"})}

HashFailed == sink.errs

HashOk == Hashed \ HashFailed

InChan == {chan[i].path : i \in DOMAIN chan}

Bucketed == UNION {Range(hashes[key]) : key \in DOMAIN hashes}

NoRepeat(s) == \A i, j \in DOMAIN s : i # j => s[i] # s[j]

GroupsDisjoint(s) ==
    \A i, j \in DOMAIN s :
        i # j => Range(s[i].paths) \cap Range(s[j].paths) = {}

\* C3: the groups reported over a run are pairwise disjoint, and so are the
\* groups one comparator invocation sends from its main branch and from
\* its recursive calls on todo_diff.
C3_Disjoint == GroupsDisjoint(Reported) /\ GroupsDisjoint(cmp.sent)

\* C3's case: the run printed two groups of files of one size and one
\* digest, which one comparator invocation told apart.
C3_Witness ==
    /\ main.pc = "done"
    /\ \E i, j \in DOMAIN sink.out :
           /\ i # j
           /\ sink.out[i].size = LargeSize
           /\ sink.out[j].size = LargeSize

\* C5: on unix no inode is passed to the size bucket twice, and of the
\* hard links to one inode at most one is in the groups reported.
C5_Hardlinks ==
    opts.unix =>
        /\ \A i, j \in DOMAIN main.observed :
               i # j => files[main.observed[i]].ino # files[main.observed[j]].ino
        /\ \A p, q \in ReportedPaths : p # q => files[p].ino # files[q].ino

\* C5's case: on unix, of two hard links to one inode one was printed in a
\* group.
C5_Witness ==
    /\ opts.unix
    /\ main.pc = "done"
    /\ \E p, q \in DOMAIN files :
           /\ p # q
           /\ files[p].ino = files[q].ino
           /\ \E i \in DOMAIN sink.out : p \in Range(sink.out[i].paths)

\* Every hash job has ended, the hash channel is drained and closed, and
\* `hashes` holds the path of every hash job that succeeded.
HashPhaseOver ==
    /\ JobsIn("hash", {"queued", "running"}) = {}
    /\ JobsIn("agg", {"queued", "running"}) = {}
    /\ chan = <<>>
    /\ Bucketed = HashOk

\* C6: a comparison job exists only when the hash phase is over, and the
\* aggregator (which borrows `hashes`) never runs while the main thread
\* iterates over `hashes`.
C6_PhaseBoundary ==
    /\ JobsIn("cmp", {"queued", "running", "done"}) # {} => HashPhaseOver
    /\ JobsIn("agg", {"running"}) # {} => main.pc \in {"walk", "joinA"}
    /\ main.pc \notin {"walk", "joinA"} => HashPhaseOver

\* C6's case: a comparison job runs after a hash phase that filled two
\* buckets and in which a hash job failed.
C6_Witness ==
    /\ JobsIn("cmp", {"running"}) # {}
    /\ Cardinality(DOMAIN hashes) >= 2
    /\ HashFailed # {}

\* C7: every path given to a hash job was passed to `process`, as was
\* another path of the same size; so a path whose size is unique among
\* the paths observed has no hash job.
C7_SharedSize ==
    \A j \in HashJobs :
        LET p == jobs[j].paths[1]
        IN  /\ p \in Observed
            /\ \E q \in Observed \ {p} : files[q].size = files[p].size

\* C7's case: during the walk three paths of one size have hash jobs and a
\* path of a unique size has none.
C7_Witness ==
    /\ main.pc = "walk"
    /\ Cardinality(HashJobs) = 3
    /\ \E p \in Observed :
           /\ \A q \in Observed \ {p} : files[q].size # files[p].size
           /\ \A j \in HashJobs : jobs[j].paths[1] # p

\* C9: the messages sent are exactly one per hash job that succeeded, each
\* with the file's size and digest; a path whose hashing failed is in no
\* bucket and no group; and at the end any two paths hashed with success
\* that are byte-identical have been printed together.
C9_HashFailure ==
    /\ HashFailed \subseteq Hashed
    /\ InChan \cup Bucketed = HashOk
    /\ InChan \cap Bucketed = {}
    /\ NoRepeat(chan)
    /\ \A key \in DOMAIN hashes : NoRepeat(hashes[key])
    /\ \A k1, k2 \in DOMAIN hashes :
           k1 # k2 => Range(hashes[k1]) \cap Range(hashes[k2]) = {}
    /\ \A i \in DOMAIN chan :
           chan[i] = [size |-> files[chan[i].path].size, path |-> chan[i].path,
                      hash |-> HashFileInner(files, chan[i].path)]
    /\ \A key \in DOMAIN hashes : \A p \in Range(hashes[key]) :
           key = <<files[p].size, HashFileInner(files, p)>>
    /\ ReportedPaths \cap HashFailed = {}
    /\ main.pc = "done" =>
           \A p, q \in HashOk :
               (p # q /\ SameBytes(p, q)) =>
                   \E i \in DOMAIN sink.out : {p, q} \subseteq Range(sink.out[i].paths)

\* C9's case: the hashing of a file failed, and two files byte-identical to
\* it were printed as a group.
C9_Witness ==
    /\ main.pc = "done"
    /\ \E e \in HashFailed : \E i \in DOMAIN sink.out :
           \A p \in Range(sink.out[i].paths) : SameBytes(e, p)

\* The groups the comparison jobs that ended have sent.
SentByJobs ==
    UNION {Range(CompareFiles(files, jobs[j].size, jobs[j].paths)) :
               j \in JobsIn("cmp", {"done"})}

RECURSIVE SumFiles(_)
SumFiles(s) ==
    IF s = <<>> THEN 0 ELSE (Len(Head(s).paths) - 1) + SumFiles(Tail(s))

RECURSIVE SumSize(_)
SumSize(s) ==
    IF s = <<>> THEN 0
    ELSE Head(s).size * (Len(Head(s).paths) - 1) + SumSize(Tail(s))

\* C12: the tallies always agree with the groups printed; a group printed
\* or in flight was sent by a comparison job, once; and after scope B
\* (where the summary is printed) every group sent has been printed.
C12_Tallies ==
    /\ sink.total_dupes = Len(sink.out)
    /\ sink.total_files = SumFiles(sink.out)
    /\ sink.total_size = SumSize(sink.out)
    /\ Range(Reported) = SentByJobs
    /\ NoRepeat(Reported)
    /\ main.pc = "done" => (chan2 = <<>> /\ Range(sink.out) = SentByJobs)

\* C12's case: the run is over and has printed a group of one-byte files
\* and a group of large files.
C12_Witness ==
    /\ main.pc = "done"
    /\ sink.total_dupes = 2
    /\ sink.total_files = 2
    /\ sink.total_size = 1 + LargeSize

\* The sets of paths printed.
Printed == {Range(sink.out[i].paths) : i \in DOMAIN sink.out}

PrintedPaths == UNION Printed

\* The paths that pass the filters of size and of hidden names.
InBounds == {p \in DOMAIN files : SizeOk(opts, files[p].size)}

Admitted == {p \in InBounds : ~HiddenExcluded(opts, files[p])}

\* p and q are hard links that the tree tells apart by nothing but their
\* names (their places in the walk).
Twins(p, q) == p # q /\ files[p] = files[q]

NoHardLinks ==
    opts.unix =>
        \A p, q \in InBounds : p # q => files[p].ino # files[q].ino

\* What the tree, the options and the files that cannot be read determine:
\* the classes, of two paths or more, of byte equality among the admitted
\* paths that were hashed with success or not hashed at all.
TreeGroups ==
    LET ps == Admitted \ HashFailed
    IN  {cl \in {{q \in ps : SameBytes(p, q)} : p \in ps} :
             Cardinality(cl) >= 2}

C14_Filtered ==
    \A p \in DOMAIN files :
        (~SizeOk(opts, files[p].size) \/ (opts.nohidden /\ files[p].name.dot)) =>
            /\ p \notin Observed
            /\ \A j \in HashJobs : jobs[j].paths[1] # p
            /\ p \notin ReportedPaths

\* The paths passed to `process` with the size fsize, in the order of the
\* calls.
ObservedOf(fsize) ==
    LET Has(p) == files[p].size = fsize
    IN  SelectSeq(main.observed, Has)

\* The paths of the hash jobs of the size fsize, in the order of their
\* submission.
HashJobsOf(fsize) ==
    LET Is(job) == job.kind = "hash" /\ job.size = fsize
        js == SelectSeq(jobs, Is)
    IN  [k \in DOMAIN js |-> js[k].paths[1]]

\* The size bucket and the jobs agree with the calls of `process` so far:
\* a size seen once has its path stashed and no job; a size seen twice or
\* more is Multiple and has one job for each path, in the order of the
\* calls (so the stashed path's job comes first).
BucketsAgree ==
    /\ DOMAIN main.sizes = {files[p].size : p \in Observed}
    /\ \A fsize \in DOMAIN main.sizes :
           IF Len(ObservedOf(fsize)) = 1
           THEN /\ main.sizes[fsize] = One(ObservedOf(fsize)[1])
                /\ HashJobsOf(fsize) = <<>>
           ELSE /\ main.sizes[fsize] = Multiple
                /\ HashJobsOf(fsize) = ObservedOf(fsize)
    /\ \A j \in HashJobs : jobs[j].size \in DOMAIN main.sizes

\* A bucket stays, and a Multiple bucket stays Multiple.
BucketsGrow ==
    \A fsize \in DOMAIN main.sizes :
        /\ fsize \in DOMAIN main'.sizes
        /\ main.sizes[fsize] = Multiple => main'.sizes[fsize] = Multiple

\* C16: each path observed has one hash job if another path observed has
\* its size and none otherwise, the stashed path's job being submitted at
\* the second sighting of the size and before the second path's; and a
\* bucket never goes back.
C16_Emission == []BucketsAgree /\ [][BucketsGrow]_vars

\* C16's case: during the walk one size is stashed as One and another is
\* Multiple with the jobs of three paths.
C16_Witness ==
    /\ main.pc = "walk"
    /\ \E fsize \in DOMAIN main.sizes : main.sizes[fsize].tag = "One"
    /\ \E fsize \in DOMAIN main.sizes : Len(HashJobsOf(fsize)) = 3

\* The offsets of the blocks of p all of whose bytes are at an offset o
\* with o mod (BLOCK+GAP) < BLOCK (BLOCK divides BLOCK+GAP, so a block is
\* sampled as a whole or not at all).
SampledOffsets(p) ==
    {o \in {b * BLOCKSIZE : b \in BlockIndexes(files[p].size)} :
         o % (BLOCKSIZE + GAPSIZE) < BLOCKSIZE}

\* The bytes of p at those offsets, in order.
SampledFeed(p) ==
    LET offs == SampledOffsets(p)
        Nth(k) == CHOOSE o \in offs : Cardinality({x \in offs : x < o}) = k - 1
    IN  [k \in 1..Cardinality(offs) |->
             <<ReadLen(files, p, Nth(k)), BlockClass(files, p, Nth(k))>>]

\* p and q, of one size, differ at offsets inside the skipped gaps only.
GapTwins(p, q) ==
    /\ files[p].size = files[q].size
    /\ files[p].content # files[q].content
    /\ \A o \in SampledOffsets(p) :
           BlockClass(files, p, o) = BlockClass(files, q, o)

\* C17: a digest sent or aggregated is that of the bytes at the offsets o
\* with o mod (BLOCK+GAP) < BLOCK; two files that differ inside the gaps
\* only share their bucket and are in no group together, and when they
\* are alone in their bucket none of them is printed.
C17_SparseSample ==
    /\ \A i \in DOMAIN chan : chan[i].hash = SampledFeed(chan[i].path)
    /\ \A key \in DOMAIN hashes : \A p \in Range(hashes[key]) :
           key[2] = SampledFeed(p)
    /\ \A p, q \in Bucketed :
           GapTwins(p, q) =>
               /\ \E key \in DOMAIN hashes : {p, q} \subseteq Range(hashes[key])
               /\ \A i \in DOMAIN Reported :
                      ~({p, q} \subseteq Range(Reported[i].paths))
    /\ main.pc = "done" =>
           \A key \in DOMAIN hashes :
               (/\ Len(hashes[key]) = 2
                /\ GapTwins(hashes[key][1], hashes[key][2]))
                   => Range(hashes[key]) \cap PrintedPaths = {}

\* C17's case: two files that differ inside a gap were put in one bucket
\* and compared, and the run printed nothing.
C17_Witness ==
    /\ main.pc = "done"
    /\ Len(files) = 2
    /\ GapTwins(1, 2)
    /\ \E key \in DOMAIN hashes : Len(hashes[key]) = 2
    /\ JobsIn("cmp", {"done"}) # {}
    /\ sink.out = <<>>

\* C19: under fair scheduling both scopes exit (main reaches the summary);
\* scope A is left with the aggregator's loop ended and scope B with the
\* printer's loop ended and every job done, although the aggregator holds a
\* worker whenever a hash job runs and the printer whenever a comparison
\* job runs.
ScopeARunning == main.pc \in {"walk", "joinA"}

LoopsEnd ==
    /\ ~ScopeARunning => JobsIn("agg", {"done"}) # {}
    /\ main.pc = "done" => JobsIn("print", {"done"}) # {} /\ AllJobsDone
    /\ JobsIn("hash", {"running"}) # {} => JobsIn("agg", {"running"}) # {}
    /\ JobsIn("cmp", {"running"}) # {} => JobsIn("print", {"running"}) # {}

C19_ScopesExit == <>(main.pc = "done") /\ []LoopsEnd

\* C19 witness: the run has ended after a hash job that failed, one that
\* succeeded and a comparison job, with the pool of two workers.
C19_Witness ==
    /\ main.pc = "done"
    /\ PoolSize = 2
    /\ HashFailed # {}
    /\ HashOk # {}
    /\ JobsIn("cmp", {"done"}) # {}

\* C20: in a run without an I/O error, for every two distinct inodes of
\* identical content that each have a path passing the filters (the size
\* bounds and -H), some group reported holds a path of each of the two
\* inodes.
PathsOf(ino) == {p \in DOMAIN files : files[p].ino = ino}

C20_PerInode ==
    (main.pc = "done" /\ HashFailed = {}) =>
        \A p, q \in Admitted :
            (files[p].ino # files[q].ino /\ SameBytes(p, q)) =>
                \E i \in DOMAIN Reported :
                    /\ Range(Reported[i].paths) \cap PathsOf(files[p].ino) # {}
                    /\ Range(Reported[i].paths) \cap PathsOf(files[q].ino) # {}

=============================================================================
